---- MODULE Spec2Model ----
(***************************************************************************)
(* Litex-CNC toolerator: the turret sequencer (TooleratorModule) and the   *)
(* step pulse generator (StepgenModule) as synchronous state machines.     *)
(*                                                                         *)
(* Both modules are Migen netlists.  One clock tick executes every         *)
(* statement of the sync domain: all conditions and right-hand sides read  *)
(* the register values of before the tick, and when several statements     *)
(* assign the same register the LAST one in statement order wins.  The     *)
(* statement order of a module is: its own statements in the order they    *)
(* were added, then the statements of its submodules.  So within one tick  *)
(* the order is                                                            *)
(*   TooleratorModule (state machine, HOME_* machine)                      *)
(*   StepgenModule    (ramp, position algorithm, reset, position update,   *)
(*                     create_routine: step edge, hold_dds, step, dir)     *)
(*   StepgenCounter x3 (count down).                                       *)
(* Every block below is an operator  Block(o, n): o holds the signals      *)
(* before the tick, n the assignments collected so far; the result is n    *)
(* with the block's assignments written over it.                           *)
(*                                                                         *)
(* The source with config.homing set holds expressions Python cannot       *)
(* evaluate at construction (toolerator.py lines 211, 233, 243); the model *)
(* is the statement list the source text describes.                        *)
(***************************************************************************)
EXTENDS Integers, Sequences, FiniteSets, TLC

VARIABLES
    config,          \* construction parameters (fixed after Init)
    pads,            \* the pads record: home sensor pin
    toolerator,      \* signals of TooleratorModule
    step_generator,  \* signals of StepgenModule (and its three counters)
    bench            \* what the simulation test bench has recorded of the outputs

vars == <<config, pads, toolerator, step_generator, bench>>

----------------------------------------------------------------------------
(* Bounds of the model *)

\* Width of the position registers before widening (64 in the source).
PosBits == 4
\* Width of the speed registers before widening (32 in the source).
SpeedBits == 4

----------------------------------------------------------------------------
(* Fixed-width arithmetic *)

Pow2(k) == 2 ^ k

\* Value of the low w bits of x read as an unsigned number.
Unsigned(x, w) == x % Pow2(w)

\* Value of the low w bits of x read as a two's complement number.
Signed(x, w) ==
    LET u == x % Pow2(w)
    IN  IF u >= Pow2(w - 1) THEN u - Pow2(w) ELSE u

\* x >> k on a signed value (arithmetic shift: floor division).
Shr(x, k) == x \div Pow2(k)

\* Bit k of x.
Bit(x, k) == (x \div Pow2(k)) % 2

\* 1-bit operators on 0/1 values, as Migen evaluates them.
BitAnd(a, b) == IF a = 1 /\ b = 1 THEN 1 ELSE 0
BitOr(a, b) == IF a = 1 \/ b = 1 THEN 1 ELSE 0
BitNot(a) == 1 - a
B(p) == IF p THEN 1 ELSE 0

Abs(x) == IF x < 0 THEN -x ELSE x

----------------------------------------------------------------------------
(* StepgenModule: widths, derived signals *)

\* self.pick_off_acc - self.pick_off_vel: the shift from speed to position units.
PickOffShift(c) == c.pick_off_acc - c.pick_off_vel

\* Width of position, position_target, dtg, acc_distance, home_position.
PositionWidth(c) == PosBits + (c.pick_off_vel - c.pick_off_pos)

\* Width of speed, speed_target, max_speed.
SpeedWidth(c) == SpeedBits + (c.pick_off_acc - c.pick_off_vel)

\* Widths of the timing registers and of the three counters.
SteplenWidth == 10
DirHoldTimeWidth == 10
DirSetupTimeWidth == 12
SteplenCounterWidth == 10
DirHoldCounterWidth == 11
DirSetupCounterWidth == 13
\* Width of max_acceleration.
MaxAccelerationWidth == 32
\* Width of current_tool, moving_to_tool, commanded_tool.
ToolWidth == 8

\* self.comb += self.dtg.eq(self.position_target - self.position)
dtg(c, g) == Signed(g.position_target - g.position, PositionWidth(c))

\* (5 * self.max_acceleration) >> (pick_off_acc - pick_off_vel)
MarginPos(c, g) == Shr(5 * g.max_acceleration, PickOffShift(c))

\* (-5 * self.max_acceleration) >> (pick_off_acc - pick_off_vel)
MarginNeg(c, g) == Shr((-5) * g.max_acceleration, PickOffShift(c))

\* A stopped that looks at the speed only.
stoppedAtZeroSpeed(c, g) == g.speed = 0

\* self.comb += self.stopped.eq(...)
stopped(c, g) ==
    /\ dtg(c, g) < MarginPos(c, g)
    /\ dtg(c, g) > MarginNeg(c, g)
    /\ g.speed = 0

\* generator.position[generator.pick_off_pos]: the step phase bit.
StepPhase(c, g) == Bit(g.position, c.pick_off_pos)

\* generator.speed[32 + (pick_off_acc - pick_off_vel) - 1]: the sign bit of speed.
SpeedSign(g) == IF g.speed < 0 THEN 1 ELSE 0

----------------------------------------------------------------------------
(* StepgenModule: the sync statements, in statement order *)

\* If(~self.enable, self.speed_target.eq(0)), inside If(~reset & ~wait, ...).
DisableClamp(c, o, n) ==
    IF o.g.reset = 0 /\ o.g.wait = 0 /\ o.g.enable = 0
    THEN [n EXCEPT !.g.speed_target = 0]
    ELSE n

\* Accelerate: the gap to speed_target is at least max_acceleration.
RampAccelerate(c, o, n) ==
    LET g == o.g
        d == Shr(g.speed + Shr(g.max_acceleration, 1), PickOffShift(c))
    IN  [n EXCEPT
            !.g.acc_distance =
                Signed(IF g.speed >= 0 THEN g.acc_distance + d
                                       ELSE g.acc_distance - d, PositionWidth(c)),
            !.g.speed = Signed(g.speed + g.max_acceleration, SpeedWidth(c)),
            !.g.accelerating = 1]

\* Decelerate: the gap to speed_target is at least max_acceleration.
RampDecelerate(c, o, n) ==
    LET g == o.g
        d == Shr(g.speed - Shr(g.max_acceleration, 1), PickOffShift(c))
    IN  [n EXCEPT
            !.g.acc_distance =
                Signed(IF g.speed > 0 THEN g.acc_distance - d
                                      ELSE g.acc_distance + d, PositionWidth(c)),
            !.g.speed = Signed(g.speed - g.max_acceleration, SpeedWidth(c)),
            !.g.accelerating = 1]

\* A last ramp step that never sets the speed to the target speed.
RampSnapNever(c, o, n) ==
    LET n2 == [n EXCEPT !.g.accelerating = 0]
    IN  IF o.g.speed_target = 0 THEN [n2 EXCEPT !.g.acc_distance = 0] ELSE n2

\* A last ramp step that does not clear acc_distance at rest.
RampSnapKeepsDistance(c, o, n) ==
    LET g == o.g
        d == Shr(g.speed + g.speed_target, PickOffShift(c) + 1)
        n1 == IF g.position_mode # 1 \/ g.speed_target = 0
              THEN LET n0 == [n EXCEPT !.g.speed = g.speed_target]
                   IN  IF g.speed # g.speed_target
                       THEN [n0 EXCEPT !.g.acc_distance =
                                Signed(IF g.speed >= 0 THEN g.acc_distance + d
                                                       ELSE g.acc_distance - d,
                                       PositionWidth(c))]
                       ELSE n0
              ELSE n
    IN  [n1 EXCEPT !.g.accelerating = 0]

\* The gap can be bridged within one clock cycle: the speed is set to the
\* target speed in velocity mode, or when the target speed is 0.
RampSnap(c, o, n) ==
    LET g == o.g
        d == Shr(g.speed + g.speed_target, PickOffShift(c) + 1)
        n1 == IF g.position_mode # 1 \/ g.speed_target = 0
              THEN LET n0 == [n EXCEPT !.g.speed = g.speed_target]
                   IN  IF g.speed # g.speed_target
                       THEN [n0 EXCEPT !.g.acc_distance =
                                Signed(IF g.speed >= 0 THEN g.acc_distance + d
                                                       ELSE g.acc_distance - d,
                                       PositionWidth(c))]
                       ELSE n0
              ELSE n
        n2 == [n1 EXCEPT !.g.accelerating = 0]
    IN  IF g.speed_target = 0 THEN [n2 EXCEPT !.g.acc_distance = 0] ELSE n2

\* A ramp that applies the requested speed directly, whatever max_acceleration.
VelocityRampDirect(c, o, n) ==
    IF o.g.reset = 0 /\ o.g.wait = 0
    THEN [n EXCEPT !.g.speed = o.g.speed_target]
    ELSE n

\* Determine the next speed: If(~reset & ~wait, ..., If(max_acceleration == 0, ...)
\* .Else(If(accelerate).Elif(decelerate).Else(snap))).
VelocityRamp(c, o, n) ==
    LET g == o.g
    IN  IF g.reset = 0 /\ g.wait = 0
        THEN IF g.max_acceleration = 0
             THEN [n EXCEPT !.g.speed = g.speed_target]
             ELSE IF g.speed_target >= g.speed + g.max_acceleration
                  THEN RampAccelerate(c, o, n)
                  ELSE IF g.speed_target <= g.speed - g.max_acceleration
                       THEN RampDecelerate(c, o, n)
                       ELSE RampSnap(c, o, n)
        ELSE n

\* The look-ahead term of the position algorithm; sgn is +1 for
\* acc_distance > 0 and -1 for acc_distance < 0.
LookAhead(c, g, sgn) ==
    Shr((5 + 4 * g.accelerating) * g.speed
            + sgn * (4 + 4) * g.accelerating * g.max_acceleration,
        PickOffShift(c) + 1)

\* Position algorithm: chooses speed_target in position mode.  It is not
\* conditioned on enable, reset or wait.
PositionAlgorithm(c, o, n) ==
    LET g == o.g
        vmax == Signed(g.max_speed, SpeedWidth(c))
        vmin == Signed((-1) * g.max_speed, SpeedWidth(c))
    IN  IF g.position_mode # 1 THEN n
        ELSE IF g.acc_distance = 0
             THEN IF dtg(c, g) > MarginPos(c, g)
                  THEN [n EXCEPT !.g.speed_target = vmax]
                  ELSE IF dtg(c, g) < MarginNeg(c, g)
                       THEN [n EXCEPT !.g.speed_target = vmin]
                       ELSE n
             ELSE IF g.acc_distance > 0
                  THEN IF dtg(c, g) - LookAhead(c, g, 1) > g.acc_distance
                       THEN [n EXCEPT !.g.speed_target = vmax]
                       ELSE [n EXCEPT !.g.speed_target = 0]
                  ELSE IF dtg(c, g) - LookAhead(c, g, -1) < g.acc_distance
                       THEN [n EXCEPT !.g.speed_target = vmin]
                       ELSE [n EXCEPT !.g.speed_target = 0]

\* A reset that leaves the position where it is.
ResetKeepsPosition(c, o, n) ==
    IF o.g.reset = 1
    THEN [n EXCEPT !.g.speed_target = 0, !.g.speed = 0, !.g.max_acceleration = 0]
    ELSE n

\* Reset algorithm: an abrupt standstill.
ResetAlgorithm(c, o, n) ==
    IF o.g.reset = 1
    THEN [n EXCEPT !.g.speed_target = 0, !.g.speed = 0,
                   !.g.max_acceleration = 0, !.g.position = 0]
    ELSE n

\* A position update that is conditioned on enable whatever soft_stop is.
UpdatePositionGated(c, o, n) ==
    LET g == o.g
    IN  IF g.reset = 0 /\ g.enable = 1 /\ g.wait = 0
        THEN [n EXCEPT !.g.position =
                 Signed(g.position + Shr(g.speed, PickOffShift(c)), PositionWidth(c))]
        ELSE n

\* Update the position; with soft_stop the update is not conditioned on enable.
UpdatePosition(c, o, n) ==
    LET g == o.g
        go == IF c.soft_stop
              THEN g.reset = 0 /\ g.wait = 0
              ELSE g.reset = 0 /\ g.enable = 1 /\ g.wait = 0
    IN  IF go
        THEN [n EXCEPT !.g.position =
                 Signed(g.position + Shr(g.speed, PickOffShift(c)), PositionWidth(c))]
        ELSE n

\* create_routine: a toggle of the step phase bit is a step edge, accepted
\* when no direction change is held, deferred (wait) otherwise.
StepEdge(c, o, n) ==
    LET g == o.g
    IN  IF StepPhase(c, g) # g.step_prev
        THEN IF g.hold_dds = 0
             THEN [n EXCEPT
                     !.g.step_prev = StepPhase(c, g),
                     !.g.steplen_counter = Unsigned(g.steplen, SteplenCounterWidth),
                     !.g.dir_hold_counter =
                         Unsigned(g.steplen + g.dir_hold_time, DirHoldCounterWidth),
                     !.g.dir_setup_counter =
                         Unsigned(g.steplen + g.dir_hold_time + g.dir_setup_time,
                                  DirSetupCounterWidth),
                     !.g.wait = 0]
             ELSE [n EXCEPT !.g.wait = 1]
        ELSE n

\* create_routine: reset the DDS flag when dir_setup_counter has lapsed.
HoldRelease(c, o, n) ==
    IF o.g.dir_setup_counter = 0 THEN [n EXCEPT !.g.hold_dds = 0] ELSE n

\* A step output that drops one tick early.
StepOutputShort(c, o, n) ==
    [n EXCEPT !.g.step = IF o.g.steplen_counter > 1 THEN 1 ELSE 0]

\* create_routine: the step output.
StepOutput(c, o, n) ==
    [n EXCEPT !.g.step = IF o.g.steplen_counter > 0 THEN 1 ELSE 0]

\* A dir output that follows the sign of speed without waiting for the hold.
DirOutputImmediate(c, o, n) ==
    LET g == o.g
    IN  IF g.dir # SpeedSign(g)
        THEN LET n1 == [n EXCEPT !.g.hold_dds = 1]
                 n2 == IF g.dir_setup_counter = 0
                       THEN [n1 EXCEPT !.g.dir_setup_counter =
                                Unsigned(g.dir_setup_time, DirSetupCounterWidth)]
                       ELSE n1
             IN  [n2 EXCEPT !.g.dir = SpeedSign(g)]
        ELSE n

\* A dir output that does not load dir_setup_counter on a reversal at rest.
DirOutputNoSetup(c, o, n) ==
    LET g == o.g
    IN  IF g.dir # SpeedSign(g)
        THEN LET n1 == [n EXCEPT !.g.hold_dds = 1]
             IN  IF g.dir_hold_counter = 0
                 THEN [n1 EXCEPT !.g.dir = SpeedSign(g)]
                 ELSE n1
        ELSE n

\* create_routine: the dir output follows the sign of speed after the hold.
DirOutput(c, o, n) ==
    LET g == o.g
    IN  IF g.dir # SpeedSign(g)
        THEN LET n1 == [n EXCEPT !.g.hold_dds = 1]
                 n2 == IF g.dir_setup_counter = 0
                       THEN [n1 EXCEPT !.g.dir_setup_counter =
                                Unsigned(g.dir_setup_time, DirSetupCounterWidth)]
                       ELSE n1
             IN  IF g.dir_hold_counter = 0
                 THEN [n2 EXCEPT !.g.dir = SpeedSign(g)]
                 ELSE n2
        ELSE n

\* A counter whose load by another statement wins over its own count-down.
StepgenCounterYields(c, o, n) ==
    LET g == o.g
        n1 == IF g.steplen_counter > 0 /\ n.g.steplen_counter = g.steplen_counter
              THEN [n EXCEPT !.g.steplen_counter = g.steplen_counter - 1] ELSE n
        n2 == IF g.dir_hold_counter > 0 /\ n.g.dir_hold_counter = g.dir_hold_counter
              THEN [n1 EXCEPT !.g.dir_hold_counter = g.dir_hold_counter - 1] ELSE n1
    IN  IF g.dir_setup_counter > 0 /\ n.g.dir_setup_counter = g.dir_setup_counter
        THEN [n2 EXCEPT !.g.dir_setup_counter = g.dir_setup_counter - 1] ELSE n2

\* StepgenCounter (three instances): counts down while larger than 0.
StepgenCounter(c, o, n) ==
    LET g == o.g
        n1 == IF g.steplen_counter > 0
              THEN [n EXCEPT !.g.steplen_counter = g.steplen_counter - 1] ELSE n
        n2 == IF g.dir_hold_counter > 0
              THEN [n1 EXCEPT !.g.dir_hold_counter = g.dir_hold_counter - 1] ELSE n1
    IN  IF g.dir_setup_counter > 0
        THEN [n2 EXCEPT !.g.dir_setup_counter = g.dir_setup_counter - 1] ELSE n2

\* All sync statements of StepgenModule and its submodules, in order.
StepgenModule(c, o, n) ==
    LET n1 == DisableClamp(c, o, n)
        n2 == VelocityRamp(c, o, n1)
        n3 == PositionAlgorithm(c, o, n2)
        n4 == ResetAlgorithm(c, o, n3)
        n5 == UpdatePosition(c, o, n4)
        n6 == StepEdge(c, o, n5)
        n7 == HoldRelease(c, o, n6)
        n8 == StepOutput(c, o, n7)
        n9 == DirOutput(c, o, n8)
    IN  StepgenCounter(c, o, n9)

----------------------------------------------------------------------------
(* TooleratorModule: configuration-derived constants *)

\* int((config.ppr << pick_off_pos) / config.tool_count): one tool pitch.
StepsPerTool(c) == (c.ppr * Pow2(c.pick_off_pos)) \div c.tool_count

\* int((config.ppr << pick_off_pos) * (config.over_travel / 360)).
OverTravelSteps(c) == ((c.ppr * Pow2(c.pick_off_pos)) * c.over_travel) \div 360

\* int((config.ppr << pick_off_pos) * ((home_back_off or over_travel) / 360)).
HomeBackOffSteps(c) ==
    LET angle == IF c.home_back_off = 0 THEN c.over_travel ELSE c.home_back_off
    IN  ((c.ppr * Pow2(c.pick_off_pos)) * angle) \div 360

\* int((config.ppr << pick_off_pos) * (config.homing.home_position / 360)).
HomePositionSteps(c) == ((c.ppr * Pow2(c.pick_off_pos)) * c.home_position) \div 360

\* A count that takes the shorter way back when the commanded tool is behind.
ForwardCountShortest(c, t) == t.commanded_tool - t.current_tool

\* The forward count of a tool change: commanded - current when the commanded
\* tool is ahead, tool_count + commanded - current otherwise.
ForwardCount(c, t) ==
    IF t.current_tool < t.commanded_tool
    THEN t.commanded_tool - t.current_tool
    ELSE c.tool_count + t.commanded_tool - t.current_tool

\* self.home == 1 | ((current_tool != commanded_tool) & ~self.homed)
\* Python reads this as  home == (1 | (...)): | binds tighter than ==.
HomingRequested(t) ==
    t.home = BitOr(1, BitAnd(B(t.current_tool # t.commanded_tool), BitNot(t.homed)))

\* self.step_generator.position_mode == 0 & self.step_generator.stopped
\* Python reads this as  position_mode == (0 & stopped).
BackOffStart(c, g) == g.position_mode = BitAnd(0, B(stopped(c, g)))

\* self.step_generator.position_mode == 1 & self.step_generator.stopped
\* Python reads this as  position_mode == (1 & stopped).
BackOffDone(c, g) == g.position_mode = BitAnd(1, B(stopped(c, g)))

----------------------------------------------------------------------------
(* TooleratorModule: the sync statements, in statement order *)

\* A START that searches for home at twice the velocity limit.
StateStartFastSearch(c, o, n) ==
    LET t == o.t
        n1 == IF t.homed = 1
              THEN [n EXCEPT !.g.position_mode = 1, !.t.state = "READY"]
              ELSE n
    IN  IF HomingRequested(t)
        THEN [n1 EXCEPT !.g.position_mode = 0,
                        !.t.home_position = o.g.position,
                        !.g.speed_target = Signed(2 * o.g.max_speed, SpeedWidth(c)),
                        !.t.state = "HOME_SEARCHING"]
        ELSE n1

\* state == START: two independent If statements, the second written last.
StateStart(c, o, n) ==
    LET t == o.t
        n1 == IF t.homed = 1
              THEN [n EXCEPT !.g.position_mode = 1, !.t.state = "READY"]
              ELSE n
    IN  IF HomingRequested(t)
        THEN [n1 EXCEPT !.g.position_mode = 0,
                        !.t.home_position = o.g.position,
                        !.g.speed_target = Signed(o.g.max_speed, SpeedWidth(c)),
                        !.t.state = "HOME_SEARCHING"]
        ELSE n1

\* A forward move that already reports the new tool when it ends.
StateMovingForwardSetsTool(c, o, n) ==
    IF stopped(c, o.g)
    THEN [n EXCEPT !.g.position_target =
                       Signed(o.g.position_target - OverTravelSteps(c), PositionWidth(c)),
                   !.t.current_tool = o.t.moving_to_tool,
                   !.t.state = "MOVING_BACKWARD"]
    ELSE n

\* state == MOVING_FORWARD: when stopped, back off by the over-travel.
StateMovingForward(c, o, n) ==
    IF stopped(c, o.g)
    THEN [n EXCEPT !.g.position_target =
                       Signed(o.g.position_target - OverTravelSteps(c), PositionWidth(c)),
                   !.t.state = "MOVING_BACKWARD"]
    ELSE n

\* state == MOVING_BACKWARD: when stopped, the tool change is complete.
StateMovingBackward(c, o, n) ==
    IF stopped(c, o.g)
    THEN [n EXCEPT !.t.current_tool = o.t.moving_to_tool, !.t.state = "READY"]
    ELSE n

\* state == READY: start a forward-only tool change.
StateReady(c, o, n) ==
    LET t == o.t
    IN  IF t.current_tool # t.commanded_tool /\ t.homed = 1
        THEN [n EXCEPT !.g.position_target =
                           Signed(o.g.position_target
                                      + StepsPerTool(c) * ForwardCount(c, t)
                                      + OverTravelSteps(c), PositionWidth(c)),
                       !.t.moving_to_tool = t.commanded_tool,
                       !.t.state = "MOVING_FORWARD"]
        ELSE n

\* A state machine that retries after a failed search: ERROR returns to START.
StateMachineRetries(c, o, n) ==
    CASE o.t.state = "START" -> StateStart(c, o, n)
      [] o.t.state = "MOVING_FORWARD" -> StateMovingForward(c, o, n)
      [] o.t.state = "MOVING_BACKWARD" -> StateMovingBackward(c, o, n)
      [] o.t.state = "READY" -> StateReady(c, o, n)
      [] o.t.state = "ERROR" -> [n EXCEPT !.t.state = "START"]
      [] OTHER -> n

\* The finite state machine: If(START).Elif(MOVING_FORWARD).Elif(MOVING_BACKWARD)
\* .Elif(READY).
StateMachine(c, o, n) ==
    CASE o.t.state = "START" -> StateStart(c, o, n)
      [] o.t.state = "MOVING_FORWARD" -> StateMovingForward(c, o, n)
      [] o.t.state = "MOVING_BACKWARD" -> StateMovingBackward(c, o, n)
      [] o.t.state = "READY" -> StateReady(c, o, n)
      [] OTHER -> n

\* A search that, when it gives up, goes on to HOME_MOVE_TO_ZERO.
StateHomeSearchingToZero(c, o, n) ==
    LET t == o.t
        n1 == IF t.home_triggered = 1
              THEN [n EXCEPT !.t.home_position = o.g.position,
                             !.g.speed_target = 0,
                             !.t.state = "HOME_BACK_OFF"]
              ELSE n
    IN  IF t.home_position - o.g.position > c.ppr + 1
        THEN [n1 EXCEPT !.g.speed_target = 0, !.t.state = "HOME_MOVE_TO_ZERO"]
        ELSE n1

\* state == HOME_SEARCHING: two independent If statements.
StateHomeSearching(c, o, n) ==
    LET t == o.t
        n1 == IF t.home_triggered = 1
              THEN [n EXCEPT !.t.home_position = o.g.position,
                             !.g.speed_target = 0,
                             !.t.state = "HOME_BACK_OFF"]
              ELSE n
    IN  IF t.home_position - o.g.position > c.ppr + 1
        THEN [n1 EXCEPT !.g.speed_target = 0, !.t.state = "ERROR"]
        ELSE n1

\* state == HOME_BACK_OFF: two independent If statements.
StateHomeBackOff(c, o, n) ==
    LET t == o.t
        n1 == IF BackOffStart(c, o.g)
              THEN [n EXCEPT !.g.position_mode = 1,
                             !.g.position_target =
                                 Signed(t.home_position - HomeBackOffSteps(c),
                                        PositionWidth(c))]
              ELSE n
    IN  IF BackOffDone(c, o.g)
        THEN [n1 EXCEPT !.t.home_position = o.g.position,
                        !.g.speed_target = Signed(c.home_latch_speed, SpeedWidth(c)),
                        !.t.state = "HOME_LATCHING"]
        ELSE n1

\* state == HOME_LATCHING: two independent If statements.
StateHomeLatching(c, o, n) ==
    LET t == o.t
        n1 == IF t.home_triggered = 1
              THEN [n EXCEPT !.t.home_position = o.g.position,
                             !.g.speed_target = 0,
                             !.t.state = "HOME_BACK_OFF"]
              ELSE n
    IN  IF t.home_position - o.g.position > HomeBackOffSteps(c)
        THEN [n1 EXCEPT !.g.speed_target = 0, !.t.state = "ERROR"]
        ELSE n1

\* state == HOME_MOVE_TO_ZERO.  The source's conditions are
\* position_mode.eq(0) & stopped and position_mode.eq(1) & stopped (an
\* assignment where a comparison is meant); they are read as the comparisons.
StateHomeMoveToZero(c, o, n) ==
    LET t == o.t
        n1 == IF o.g.position_mode = 0 /\ stopped(c, o.g)
              THEN [n EXCEPT !.g.position_mode = 1,
                             !.g.position_target =
                                 Signed(t.home_position - HomePositionSteps(c)
                                            + OverTravelSteps(c), PositionWidth(c))]
              ELSE n
    IN  IF o.g.position_mode = 1 /\ stopped(c, o.g)
        THEN [n1 EXCEPT !.t.state = "MOVING_FORWARD"]
        ELSE n1

\* if config.homing: the HOME_* machine, a second If/Elif chain.
HomingMachine(c, o, n) ==
    IF ~c.homing THEN n
    ELSE CASE o.t.state = "HOME_SEARCHING" -> StateHomeSearching(c, o, n)
           [] o.t.state = "HOME_BACK_OFF" -> StateHomeBackOff(c, o, n)
           [] o.t.state = "HOME_LATCHING" -> StateHomeLatching(c, o, n)
           [] o.t.state = "HOME_MOVE_TO_ZERO" -> StateHomeMoveToZero(c, o, n)
           [] OTHER -> n

\* A tick in which the generator reads the registers the sequencer has just
\* written.
TooleratorModuleForwarding(c, o) ==
    LET n1 == StateMachine(c, o, o)
        n2 == HomingMachine(c, o, n1)
    IN  StepgenModule(c, [o EXCEPT !.g = n2.g], n2)

\* All sync statements of TooleratorModule, then those of its submodule.
TooleratorModule(c, o) ==
    LET n1 == StateMachine(c, o, o)
        n2 == HomingMachine(c, o, n1)
    IN  StepgenModule(c, o, n2)

----------------------------------------------------------------------------
(* The turret with its generator: construction, inputs, clock *)

\* The instance configuration and the constructor arguments.  The speed and
\* timing entries are the register values the constructor computes from them.
TooleratorInstanceConfig(homing) ==
    [ tool_count |-> 3, ppr |-> 12, over_travel |-> 180,
      homing |-> homing, invert_home |-> FALSE, home_back_off |-> 0,
      home_latch_speed |-> 2, home_position |-> 0,
      pick_off_pos |-> 0, pick_off_vel |-> 3, pick_off_acc |-> 4,
      soft_stop |-> TRUE,
      max_acceleration |-> 2, max_speed |-> 4,
      steplen |-> 1, dir_hold_time |-> 1, dir_setup_time |-> 1 ]

\* Longest span of ticks the test bench keeps count of.
MaxWatch == 5

\* The test bench before the first tick: no step edge and no change of dir
\* seen yet (the counts stand at MaxWatch, "that long ago or never").
BenchInit ==
    [ since_edge |-> MaxWatch, since_dir |-> MaxWatch, pending |-> 0, step_high |-> 0 ]

\* StepgenModule.__init__: the reset values of the signals; dir resets to 1.
StepgenInit(c) ==
    [ enable |-> 0, position_mode |-> 0, accelerating |-> 0,
      position |-> 0, position_target |-> 0, acc_distance |-> 0,
      speed |-> 0, speed_target |-> 0,
      max_speed |-> c.max_speed, max_acceleration |-> c.max_acceleration,
      wait |-> 0, reset |-> 0,
      steplen |-> Unsigned(c.steplen, SteplenWidth),
      dir_hold_time |-> Unsigned(c.dir_hold_time, DirHoldTimeWidth),
      dir_setup_time |-> Unsigned(c.dir_setup_time, DirSetupTimeWidth),
      step_prev |-> 0, step |-> 0, dir |-> 1, hold_dds |-> 0,
      steplen_counter |-> 0, dir_hold_counter |-> 0, dir_setup_counter |-> 0 ]

\* TooleratorModule.__init__: the reset values; homed resets to 1 when no
\* home sensor is configured; home_triggered is not driven by any statement.
TooleratorInit(c) ==
    [ enable |-> 0, current_tool |-> 0, moving_to_tool |-> 0, commanded_tool |-> 0,
      home |-> 0, home_triggered |-> 0, home_position |-> 0,
      homed |-> IF c.homing THEN 0 ELSE 1,
      state |-> "START" ]

Init ==
    /\ config \in {TooleratorInstanceConfig(h) : h \in BOOLEAN}
    /\ pads = [home |-> 0]
    /\ toolerator = TooleratorInit(config)
    /\ step_generator = StepgenInit(config)
    /\ bench = BenchInit

\* The host writes the enable bit; the generator's enable follows it
\* combinatorially.
SetEnable ==
    /\ \E b \in {0, 1} :
        /\ toolerator' = [toolerator EXCEPT !.enable = b]
        /\ step_generator' = [step_generator EXCEPT !.enable = b]
    /\ UNCHANGED <<config, pads, bench>>

\* The host writes the requested tool number.
SetCommandedTool ==
    /\ \E k \in 0..config.tool_count :
        toolerator' = [toolerator EXCEPT !.commanded_tool = k]
    /\ UNCHANGED <<config, pads, step_generator, bench>>

\* The home request input.
SetHome ==
    /\ \E b \in {0, 1} : toolerator' = [toolerator EXCEPT !.home = b]
    /\ UNCHANGED <<config, pads, step_generator, bench>>

\* The home sensor pin (present when a home sensor is configured).
SetPadsHome ==
    /\ config.homing
    /\ \E b \in {0, 1} : pads' = [pads EXCEPT !.home = b]
    /\ UNCHANGED <<config, toolerator, step_generator, bench>>

\* One clock tick of the sync domain.
Tick ==
    LET o == [t |-> toolerator, g |-> step_generator]
        n == TooleratorModule(config, o)
    IN  /\ toolerator' = n.t
        /\ step_generator' = n.g
        /\ UNCHANGED <<config, pads, bench>>

Next == SetEnable \/ SetCommandedTool \/ SetHome \/ SetPadsHome \/ Tick

Spec == Init /\ [][Next]_vars

\* The clock always ticks.
FairSpec == Spec /\ WF_vars(Tick)

\* The turret whose enable input is never driven: enable keeps its reset
\* value 0.
NextDisabled == SetCommandedTool \/ SetHome \/ SetPadsHome \/ Tick

SpecDisabled == Init /\ [][NextDisabled]_vars

\* The turret whose host commands tools 1..tool_count only, from the set-up
\* of the test bench on.
InitInRange ==
    /\ config \in {TooleratorInstanceConfig(h) : h \in BOOLEAN}
    /\ pads = [home |-> 0]
    /\ \E k \in 1..config.tool_count :
        toolerator = [TooleratorInit(config) EXCEPT !.commanded_tool = k]
    /\ step_generator = StepgenInit(config)
    /\ bench = BenchInit

SetCommandedToolInRange ==
    /\ \E k \in 1..config.tool_count :
        toolerator' = [toolerator EXCEPT !.commanded_tool = k]
    /\ UNCHANGED <<config, pads, step_generator, bench>>

NextInRange ==
    SetEnable \/ SetCommandedToolInRange \/ SetHome \/ SetPadsHome \/ Tick

SpecInRange == InitInRange /\ [][NextInRange]_vars

----------------------------------------------------------------------------
(* The HOME_BACK_OFF handler, applied to the states HOME_SEARCHING hands over *)

\* Largest position at which the home sensor is taken to have been hit.
MaxHomePosition == 3

\* The inputs of the HOME_BACK_OFF handler: what the sensor branch of
\* HOME_SEARCHING leaves behind (velocity mode, speed_target 0, home_position
\* the position of the hit), with the turret either still turning at the
\* search speed or at rest.
InitBackOff ==
    /\ config = TooleratorInstanceConfig(TRUE)
    /\ pads = [home |-> 1]
    /\ bench = BenchInit
    /\ \E p \in 0..MaxHomePosition, v \in {0, config.max_speed} :
        /\ toolerator = [TooleratorInit(config) EXCEPT
                            !.enable = 1, !.home = 1,
                            !.home_position = p, !.state = "HOME_BACK_OFF"]
        /\ step_generator = [StepgenInit(config) EXCEPT
                                !.enable = 1, !.dir = 0,
                                !.speed = v, !.speed_target = 0,
                                !.acc_distance = IF v = 0 THEN 0 ELSE 1,
                                !.position = p + Shr(v, PickOffShift(config))]

SpecBackOff == InitBackOff /\ [][Next]_vars

----------------------------------------------------------------------------
(* The generator on its own, driven by a test bench *)

\* Largest speed a test bench commands.
MaxTarget == 3
\* Distance of the position targets a test bench commands.
TargetStep == 6

\* StepgenModule(pads=None, pick_off=..., soft_stop=..., create_routine): the
\* constructor arguments and the register values the test bench sets up.
StepgenConfig(soft_stop, acc) ==
    [ pick_off_pos |-> 0, pick_off_vel |-> 0, pick_off_acc |-> 1,
      soft_stop |-> soft_stop,
      max_acceleration |-> acc, max_speed |-> 3,
      steplen |-> 0, dir_hold_time |-> 0, dir_setup_time |-> 0 ]

InitGen ==
    /\ config \in {StepgenConfig(ss, acc) : ss \in {TRUE}, acc \in {2}}
    /\ pads = [home |-> 0]
    /\ toolerator = [state |-> "ABSENT"]
    /\ step_generator = StepgenInit(config)
    /\ bench = BenchInit

\* The test bench drives the inputs of the generator between clock ticks.
GenSetEnable ==
    /\ \E b \in {0, 1} : step_generator' = [step_generator EXCEPT !.enable = b]
    /\ UNCHANGED <<config, pads, toolerator, bench>>

GenSetPositionMode ==
    /\ \E b \in {0, 1} : step_generator' = [step_generator EXCEPT !.position_mode = b]
    /\ UNCHANGED <<config, pads, toolerator, bench>>

GenSetSpeedTarget ==
    /\ \E v \in -MaxTarget..MaxTarget :
        step_generator' = [step_generator EXCEPT !.speed_target = v]
    /\ UNCHANGED <<config, pads, toolerator, bench>>

GenSetPositionTarget ==
    /\ \E d \in {-TargetStep, 0, TargetStep} :
        step_generator' = [step_generator EXCEPT !.position_target = d]
    /\ UNCHANGED <<config, pads, toolerator, bench>>

\* One clock tick of the generator.
GenTick ==
    LET o == [t |-> toolerator, g |-> step_generator]
        n == StepgenModule(config, o, o)
    IN  /\ step_generator' = n.g
        /\ UNCHANGED <<config, pads, toolerator, bench>>

NextGen ==
    \/ GenSetEnable \/ GenSetPositionMode \/ GenSetSpeedTarget
    \/ GenSetPositionTarget \/ GenTick

SpecGen == InitGen /\ [][NextGen]_vars

FairSpecGen == SpecGen /\ WF_vars(GenTick)

----------------------------------------------------------------------------
(* The generator in velocity mode with pulse timing, watched by a test bench *)

\* Largest speed the timing test bench commands.
BenchTarget == 2

\* StepgenModule(pads=None, pick_off=1, soft_stop=True, create_routine) with
\* non-zero steplen, dir_hold_time and dir_setup_time; max_acceleration 0
\* makes the speed follow speed_target on the next tick, so that a reversal
\* can be commanded at any tick.  The step phase is bit 1 of position: speed 1
\* steps every second tick, speed 2 every tick.
StepgenTimedConfig ==
    [ pick_off_pos |-> 1, pick_off_vel |-> 1, pick_off_acc |-> 1,
      soft_stop |-> TRUE,
      max_acceleration |-> 0, max_speed |-> 3,
      steplen |-> 2, dir_hold_time |-> 2, dir_setup_time |-> 3 ]

\* What the test bench records on a tick from signals g to signals g2:
\*   since_edge  ticks since the tick that accepted a step edge (step_prev changed)
\*   since_dir   ticks since the tick that changed the dir output
\*   pending     dir differed from the sign of speed at the start of some
\*               tick after the last accepted step edge
\*   step_high   consecutive ticks the step output has been high
Observe(g, g2, b) ==
    LET Count(k) == IF k < MaxWatch THEN k + 1 ELSE MaxWatch
        edge == g2.step_prev # g.step_prev
    IN  [ since_edge |-> IF edge THEN 1 ELSE Count(b.since_edge),
          since_dir |-> IF g2.dir # g.dir THEN 1 ELSE Count(b.since_dir),
          pending |-> IF edge THEN 0
                      ELSE IF g.dir # SpeedSign(g) THEN 1 ELSE b.pending,
          step_high |-> IF g2.step = 1 THEN Count(b.step_high) ELSE 0 ]

\* The generator after the set-up of the test bench, which enables it.
InitBench ==
    /\ config = StepgenTimedConfig
    /\ pads = [home |-> 0]
    /\ toolerator = [state |-> "ABSENT"]
    /\ step_generator = [StepgenInit(config) EXCEPT !.enable = 1]
    /\ bench = BenchInit

\* The test bench writes speed_target between clock ticks.
BenchSetSpeedTarget ==
    /\ \E v \in -BenchTarget..BenchTarget :
        step_generator' = [step_generator EXCEPT !.speed_target = v]
    /\ UNCHANGED <<config, pads, toolerator, bench>>

\* One clock tick of the generator; the test bench reads the outputs.
BenchTick ==
    LET o == [t |-> toolerator, g |-> step_generator]
        n == StepgenModule(config, o, o)
    IN  /\ step_generator' = n.g
        /\ bench' = Observe(step_generator, n.g, bench)
        /\ UNCHANGED <<config, pads, toolerator>>

NextBench == BenchSetSpeedTarget \/ BenchTick

SpecBench == InitBench /\ [][NextBench]_vars

----------------------------------------------------------------------------
(* The generator with either soft_stop setting and the reset input *)

\* StepgenModule(pads=None, pick_off=0, soft_stop=..., create_routine); with
\* dir_setup_time 1 a reversal makes the next step edge wait.  max_acceleration
\* is left at 0, the value a reset gives it: the speed follows speed_target.
StepgenHostConfig(soft_stop) ==
    [ pick_off_pos |-> 0, pick_off_vel |-> 0, pick_off_acc |-> 0,
      soft_stop |-> soft_stop,
      max_acceleration |-> 0, max_speed |-> 3,
      steplen |-> 0, dir_hold_time |-> 0, dir_setup_time |-> 1 ]

InitHost ==
    /\ config \in {StepgenHostConfig(ss) : ss \in BOOLEAN}
    /\ pads = [home |-> 0]
    /\ toolerator = [state |-> "ABSENT"]
    /\ step_generator = StepgenInit(config)
    /\ bench = BenchInit

\* The host asserts or releases reset between clock ticks.
GenSetReset ==
    /\ \E b \in {0, 1} : step_generator' = [step_generator EXCEPT !.reset = b]
    /\ UNCHANGED <<config, pads, toolerator, bench>>

NextHost ==
    \/ GenSetEnable \/ GenSetPositionMode \/ GenSetSpeedTarget
    \/ GenSetReset \/ GenTick

SpecHost == InitHost /\ [][NextHost]_vars

----------------------------------------------------------------------------
(* The constructor of StepgenModule: storing the pick-off *)

\* Largest pick-off value and longest pick-off sequence handed to the constructor.
MaxPickOff == 3
MaxPickOffLen == 4

\* The pick_off arguments handed to the constructor: an integer, a sequence
\* of integers (list or tuple), a string, or something that is neither an
\* integer nor iterable (None).  An integer is kept as a one-element value.
PickOffArguments ==
    {[kind |-> "int", value |-> <<v>>] : v \in 0..MaxPickOff}
    \cup {[kind |-> "iterable", value |-> p] :
             p \in UNION {[1..k -> 0..MaxPickOff] : k \in 0..MaxPickOffLen}}
    \cup {[kind |-> "str", value |-> <<>>], [kind |-> "other", value |-> <<>>]}

\* Python's max of two integers.
max(a, b) == IF a >= b THEN a ELSE b

\* No generator: the constructor has raised.
Raised(exception) ==
    [constructed |-> exception, pick_off_pos |-> 0, pick_off_vel |-> 0, pick_off_acc |-> 0]

\* A pick-off that is stored as it is given.
PickOffAsGiven(pick_off) ==
    IF pick_off.kind = "int"
    THEN [constructed |-> "yes", pick_off_pos |-> pick_off.value[1],
          pick_off_vel |-> pick_off.value[1], pick_off_acc |-> pick_off.value[1]]
    ELSE IF pick_off.kind = "iterable"
         THEN IF Len(pick_off.value) < 3
              THEN Raised("ValueError")
              ELSE [constructed |-> "yes", pick_off_pos |-> pick_off.value[1],
                    pick_off_vel |-> pick_off.value[2],
                    pick_off_acc |-> pick_off.value[3]]
         ELSE Raised("ValueError")

\* StepgenModule.__init__: store the pick-off.  Index i of the Python sequence
\* is element i + 1 here.
StorePickOff(pick_off) ==
    IF pick_off.kind = "int"
    THEN [constructed |-> "yes", pick_off_pos |-> pick_off.value[1],
          pick_off_vel |-> pick_off.value[1], pick_off_acc |-> pick_off.value[1]]
    ELSE IF pick_off.kind = "iterable"
         THEN IF Len(pick_off.value) < 3
              THEN Raised("ValueError")
              ELSE LET pos == pick_off.value[1]
                       vel == max(pos, pick_off.value[2])
                       acc == max(vel, pick_off.value[3])
                   IN  [constructed |-> "yes", pick_off_pos |-> pos,
                        pick_off_vel |-> vel, pick_off_acc |-> acc]
         ELSE Raised("ValueError")

\* Before the constructor runs: the argument is chosen, nothing is built.
InitCtor ==
    /\ config \in {[pick_off |-> p] : p \in PickOffArguments}
    /\ pads = [home |-> 0]
    /\ toolerator = [state |-> "ABSENT"]
    /\ step_generator = Raised("pending")
    /\ bench = BenchInit

\* StepgenModule(pads, pick_off, soft_stop, create_routine).
Construct ==
    /\ step_generator.constructed = "pending"
    /\ step_generator' = StorePickOff(config.pick_off)
    /\ UNCHANGED <<config, pads, toolerator, bench>>

NextCtor == Construct

SpecCtor == InitCtor /\ [][NextCtor]_vars

----------------------------------------------------------------------------
(* The timing registers as TooleratorModule stores them from the configuration *)

TimingStepNs == 400
MaxTimingSteps == 3

\* The configured durations in nanoseconds (multiples of the test's 400 ns).
TimingArguments ==
    [steplen : {k * TimingStepNs : k \in 0..MaxTimingSteps},
     dir_hold_time : {k * TimingStepNs : k \in 0..MaxTimingSteps},
     dir_setup_time : {k * TimingStepNs : k \in 0..MaxTimingSteps}]

\* Clock frequencies, in MHz.
ClockFrequencies == {40, 50, 100}

\* int(value * 1e9 / clock_frequency), with clock_frequency given in MHz:
\* value * 10^9 / (f * 10^6) = value * 1000 / f, truncated.
TimingTicks(value, clock_frequency) == (value * 1000) \div clock_frequency

\* The three constants driven onto steplen, dir_hold_time and dir_setup_time,
\* cut to the width of the signals.
StoreTimings(timings, clock_frequency) ==
    [configured |-> TRUE,
     steplen |-> Unsigned(TimingTicks(timings.steplen, clock_frequency), SteplenWidth),
     dir_hold_time |->
         Unsigned(TimingTicks(timings.dir_hold_time, clock_frequency), DirHoldTimeWidth),
     dir_setup_time |->
         Unsigned(TimingTicks(timings.dir_setup_time, clock_frequency), DirSetupTimeWidth)]

InitTimings ==
    /\ config \in {[timings |-> t, clock_frequency |-> f] :
                     t \in TimingArguments, f \in ClockFrequencies}
    /\ pads = [home |-> 0]
    /\ toolerator = [state |-> "ABSENT"]
    /\ step_generator = [configured |-> FALSE, steplen |-> 0,
                         dir_hold_time |-> 0, dir_setup_time |-> 0]
    /\ bench = BenchInit

\* TooleratorModule(config, pick_off, clock_frequency): the stepgen configuration.
StoreConfiguration ==
    /\ ~step_generator.configured
    /\ step_generator' = StoreTimings(config.timings, config.clock_frequency)
    /\ UNCHANGED <<config, pads, toolerator, bench>>

NextTimings == StoreConfiguration

SpecTimings == InitTimings /\ [][NextTimings]_vars

----------------------------------------------------------------------------
(* The timed generator in velocity mode with the reset input *)

\* StepgenModule(pads=None, pick_off=1, soft_stop=True, create_routine) with
\* steplen, dir_hold_time and dir_setup_time of one tick each, so that all
\* three counters run and a step edge can fall into a direction-change hold.
StepgenWaitConfig ==
    [ pick_off_pos |-> 1, pick_off_vel |-> 1, pick_off_acc |-> 1,
      soft_stop |-> TRUE,
      max_acceleration |-> 0, max_speed |-> 3,
      steplen |-> 1, dir_hold_time |-> 1, dir_setup_time |-> 1 ]

\* The generator after the set-up of the test bench, which enables it.
InitWait ==
    /\ config = StepgenWaitConfig
    /\ pads = [home |-> 0]
    /\ toolerator = [state |-> "ABSENT"]
    /\ step_generator = [StepgenInit(config) EXCEPT !.enable = 1]
    /\ bench = BenchInit

NextWait == GenSetReset \/ BenchSetSpeedTarget \/ GenTick

SpecWait == InitWait /\ [][NextWait]_vars

----------------------------------------------------------------------------
(* Properties of the generator on its own (SpecGen) *)

\* C1: with soft_stop and max_acceleration > 0, every tick on which enable is
\* false (no reset, no wait) leaves speed_target at 0, in position mode as in
\* velocity mode.
C1_DisabledTickClearsTarget ==
    [][(/\ config.soft_stop
        /\ step_generator.max_acceleration > 0
        /\ step_generator.enable = 0
        /\ step_generator.reset = 0
        /\ step_generator.wait = 0
        /\ GenTick)
       => step_generator'.speed_target = 0]_vars

\* C8: for max_acceleration > 0, a step without reset (a tick, or an input
\* written between ticks) changes the speed by at most max_acceleration,
\* whatever the speed target and the mode.
C8_SpeedChangeBounded ==
    [][(/\ step_generator.max_acceleration > 0
        /\ step_generator.reset = 0)
       => Abs(step_generator'.speed - step_generator.speed)
              <= step_generator.max_acceleration]_vars

\* C8 witness: in velocity mode the speed stands at a target that is not a
\* multiple of max_acceleration; it got there by a full step and a last step.
C8_Witness ==
    /\ step_generator.max_acceleration = 2
    /\ step_generator.position_mode = 0
    /\ step_generator.speed_target = -3
    /\ step_generator.speed = -3
    /\ step_generator.accelerating = 0

\* C9 as stated: for max_acceleration > 0, enable set, no reset and no wait,
\* a tick that finds the speed off a target that stays the same brings the
\* speed closer to it, in position mode as in velocity mode.  The ramp reads
\* speed, speed_target, max_acceleration and position_mode only, so a tick that
\* leaves the gap as it was repeats for as long as the target is held.
C9_SpeedReachesTarget ==
    [][(/\ step_generator.max_acceleration > 0
        /\ step_generator.enable = 1
        /\ step_generator.reset = 0
        /\ step_generator.wait = 0
        /\ step_generator.speed # step_generator.speed_target
        /\ step_generator'.speed_target = step_generator.speed_target
        /\ GenTick)
       => Abs(step_generator.speed_target - step_generator'.speed)
              < Abs(step_generator.speed_target - step_generator.speed)]_vars

\* C9 amended: in velocity mode, or when the speed target is 0, every such tick
\* brings the speed closer to the target, and onto it when the gap is below
\* max_acceleration, so the speed reaches a held target in finitely many
\* ticks; in position mode with a target other than 0 a gap below
\* max_acceleration is left as it is.
C9_RampClosesGap ==
    [][(/\ step_generator.max_acceleration > 0
        /\ step_generator.enable = 1
        /\ step_generator.reset = 0
        /\ step_generator.wait = 0
        /\ step_generator.speed # step_generator.speed_target
        /\ step_generator'.speed_target = step_generator.speed_target
        /\ GenTick)
       => LET gap == Abs(step_generator.speed_target - step_generator.speed)
              snaps == step_generator.position_mode # 1
                          \/ step_generator.speed_target = 0
          IN  /\ snaps => Abs(step_generator.speed_target - step_generator'.speed) < gap
              /\ (snaps /\ gap < step_generator.max_acceleration)
                    => step_generator'.speed = step_generator.speed_target
              /\ (~snaps /\ gap < step_generator.max_acceleration)
                    => step_generator'.speed = step_generator.speed]_vars

\* C9 witness: enabled, in velocity mode, the speed has arrived at a target one
\* short of two full steps.
C9_Witness ==
    /\ step_generator.enable = 1
    /\ step_generator.wait = 0
    /\ step_generator.position_mode = 0
    /\ step_generator.max_acceleration = 2
    /\ step_generator.speed_target = 3
    /\ step_generator.speed = 3

\* C10 as stated: for max_acceleration > 0, whenever speed = 0 and
\* speed_target = 0, acc_distance = 0.
C10_NoResidualAtRest ==
    (/\ step_generator.max_acceleration > 0
     /\ step_generator.speed = 0
     /\ step_generator.speed_target = 0)
    => step_generator.acc_distance = 0

\* C10 amended: a tick on which the ramp runs (max_acceleration > 0, no reset,
\* no wait) and which finds speed = 0 and speed_target = 0 leaves
\* acc_distance = 0 and the speed at 0.
C10_RestClearsDistance ==
    [][(/\ step_generator.max_acceleration > 0
        /\ step_generator.reset = 0
        /\ step_generator.wait = 0
        /\ step_generator.speed = 0
        /\ step_generator.speed_target = 0
        /\ GenTick)
       => /\ step_generator'.acc_distance = 0
          /\ step_generator'.speed = 0]_vars

\* C10 witness: at rest after a move, with acc_distance cleared.
C10_Witness ==
    /\ step_generator.max_acceleration > 0
    /\ step_generator.position # 0
    /\ step_generator.speed = 0
    /\ step_generator.speed_target = 0
    /\ step_generator.accelerating = 0
    /\ step_generator.acc_distance = 0

----------------------------------------------------------------------------
(* Properties of the turret (Spec, FairSpec) *)

\* C2: with a home sensor configured, enable and the home request held set
\* and the sensor pin asserted, the sequencer eventually is in READY with
\* current_tool = 1 and homed set.
C2_HomingReachesReady ==
    <>[](/\ config.homing
         /\ toolerator.enable = 1
         /\ toolerator.home = 1
         /\ pads.home = 1)
    => <>(/\ toolerator.state = "READY"
          /\ toolerator.current_tool = 1
          /\ toolerator.homed = 1)

\* C3: with a home sensor configured, the search does not carry the turret
\* more than ppr + 1 steps past the position taken on entering HOME_SEARCHING:
\* the sequencer has left for ERROR by then.
C3_SearchEndsWithinOneTurn ==
    (config.homing /\ toolerator.state = "HOME_SEARCHING")
    => Shr(Signed(step_generator.position - toolerator.home_position,
                  PositionWidth(config)), config.pick_off_pos)
           <= config.ppr + 1

\* C4: ERROR is terminal.  From a state in ERROR every step (a tick or any
\* input change) stays in ERROR, speed_target is and stays 0, |speed| does not
\* grow, and a tick on which the ramp runs brings a nonzero speed closer to 0.
C4_ErrorIsTerminal ==
    [][toolerator.state = "ERROR"
       => /\ toolerator'.state = "ERROR"
          /\ step_generator.speed_target = 0
          /\ step_generator'.speed_target = 0
          /\ Abs(step_generator'.speed) <= Abs(step_generator.speed)
          /\ (step_generator.wait = 0 /\ step_generator.speed # 0 /\ Tick)
                => Abs(step_generator'.speed) < Abs(step_generator.speed)]_vars

\* C4 witness: the search has failed and the motor has ramped down to rest.
C4_Witness ==
    /\ toolerator.state = "ERROR"
    /\ step_generator.speed = 0
    /\ step_generator.enable = 1

\* C5: without a home sensor, homed is set in every reachable state and the
\* state is never one of the HOME_* states.
C5_NoSensorNeverHomes ==
    ~config.homing
    => /\ toolerator.homed = 1
       /\ toolerator.state \notin {"HOME_SEARCHING", "HOME_BACK_OFF",
                                   "HOME_LATCHING", "HOME_MOVE_TO_ZERO"}

\* C6: in READY with homed set and commanded_tool # current_tool, both in
\* 1..tool_count, the tick sets moving_to_tool to commanded_tool, the state to
\* MOVING_FORWARD, and raises position_target (within the register) by
\* StepsPerTool * k + OverTravelSteps, where k is commanded - current when the
\* commanded tool is ahead and tool_count + commanded - current otherwise;
\* 2 -> 5 and 5 -> 2 on a six-tool turret both give 3.
C6_ReadyStartsForwardMove ==
    [][(/\ toolerator.state = "READY"
        /\ toolerator.homed = 1
        /\ toolerator.commanded_tool # toolerator.current_tool
        /\ toolerator.commanded_tool \in 1..config.tool_count
        /\ toolerator.current_tool \in 1..config.tool_count
        /\ Tick)
       => LET k == IF toolerator.commanded_tool > toolerator.current_tool
                   THEN toolerator.commanded_tool - toolerator.current_tool
                   ELSE config.tool_count + toolerator.commanded_tool
                            - toolerator.current_tool
          IN  /\ k \in 1..(config.tool_count - 1)
              /\ toolerator'.moving_to_tool = toolerator.commanded_tool
              /\ toolerator'.state = "MOVING_FORWARD"
              /\ step_generator'.position_target =
                    Signed(step_generator.position_target
                               + StepsPerTool(config) * k + OverTravelSteps(config),
                           PositionWidth(config))
              /\ ForwardCount([tool_count |-> 6],
                              [current_tool |-> 2, commanded_tool |-> 5]) = 3
              /\ ForwardCount([tool_count |-> 6],
                              [current_tool |-> 5, commanded_tool |-> 2]) = 3]_vars

\* C6 witness: a forward move towards a tool behind the current one.
C6_Witness ==
    /\ toolerator.state = "MOVING_FORWARD"
    /\ toolerator.homed = 1
    /\ toolerator.current_tool \in 1..config.tool_count
    /\ toolerator.moving_to_tool \in 1..config.tool_count
    /\ toolerator.moving_to_tool < toolerator.current_tool

\* C7: with enable held set, no home request and commanded tools in range, a
\* tool change that is in MOVING_FORWARD eventually is back in READY.
C7_ToolChangeCompletes ==
    <>[](/\ toolerator.enable = 1
         /\ toolerator.home = 0
         /\ toolerator.commanded_tool \in 1..config.tool_count)
    => ((toolerator.state = "MOVING_FORWARD") ~> (toolerator.state = "READY"))

\* C21: in START with a home sensor configured and homed false, a tick on
\* which home is requested, or on which home is not requested but
\* commanded_tool differs from current_tool, starts homing: position_mode 0,
\* home_position the position, speed_target max_speed, state HOME_SEARCHING
\* (stated for an enabled turret).
C21_HomingStartsFromStart ==
    [][(/\ config.homing
        /\ toolerator.state = "START"
        /\ toolerator.homed = 0
        /\ toolerator.enable = 1
        /\ (toolerator.home = 1
              \/ toolerator.commanded_tool # toolerator.current_tool)
        /\ Tick)
       => /\ toolerator'.state = "HOME_SEARCHING"
          /\ step_generator'.position_mode = 0
          /\ toolerator'.home_position = step_generator.position
          /\ step_generator'.speed_target = step_generator.max_speed]_vars

\* C22: with no home sensor configured the turret is taken to be at tool 1 on
\* power-up: in START, before the sequencer has done anything, current_tool
\* is 1.
C22_PowerUpAtToolOne ==
    (~config.homing /\ toolerator.state = "START") => toolerator.current_tool = 1

C24_HomeTriggeredFollowsPad ==
    config.homing
    => toolerator.home_triggered =
          IF config.invert_home THEN BitNot(pads.home) ELSE pads.home

\* C25: HOME_MOVE_TO_ZERO is never reached, with or without a home sensor and
\* whatever the inputs do.
C25_MoveToZeroUnreachable ==
    toolerator.state # "HOME_MOVE_TO_ZERO"

\* A home search that has run until the sequencer gave up.
C25_Witness ==
    /\ config.homing
    /\ toolerator.state = "ERROR"
    /\ toolerator.home = 1
    /\ pads.home = 1

\* C26: index moves happen only when homed: in MOVING_FORWARD and in
\* MOVING_BACKWARD homed is set; current_tool changes only on the tick that
\* goes from MOVING_BACKWARD to READY.
C26_MovesOnlyWhenHomed ==
    [][/\ toolerator.state \in {"MOVING_FORWARD", "MOVING_BACKWARD"}
            => toolerator.homed = 1
       /\ toolerator'.state \in {"MOVING_FORWARD", "MOVING_BACKWARD"}
            => toolerator'.homed = 1
       /\ toolerator'.current_tool # toolerator.current_tool
            => (/\ toolerator.state = "MOVING_BACKWARD"
                /\ toolerator'.state = "READY")]_vars

\* A tool change that has just completed: back in READY at the new tool.
C26_Witness ==
    /\ toolerator.state = "READY"
    /\ toolerator.homed = 1
    /\ toolerator.current_tool = 2
    /\ toolerator.moving_to_tool = 2
    /\ stopped(config, step_generator)

----------------------------------------------------------------------------
(* Properties of the pulse timing (SpecBench) *)

\* C12: the dir output changes only on a tick at whose start dir_hold_counter
\* is 0; while dir_hold_counter is larger than 0 dir keeps its value.
C12_DirHeldWhileCounting ==
    [][step_generator.dir_hold_counter > 0
         => step_generator'.dir = step_generator.dir]_vars

\* A reversal is wanted while the hold after a step edge is still counting.
C12_Witness ==
    /\ step_generator.dir # SpeedSign(step_generator)
    /\ step_generator.dir_hold_counter > 0
    /\ bench.since_edge < MaxWatch

\* All three counters have run down.
CountersAtRest ==
    /\ step_generator.steplen_counter = 0
    /\ step_generator.dir_hold_counter = 0
    /\ step_generator.dir_setup_counter = 0

\* C13 (as stated): when a reversal is requested while stationary (the sign of
\* speed differs from dir with all three counters at 0), dir does not change
\* earlier than dir_setup_time ticks after the request; with
\* dir_setup_time > 1 it does not change on the tick that first sees the request.
C13_DirWaitsSetupTime ==
    [][(/\ step_generator.dir # SpeedSign(step_generator)
        /\ CountersAtRest
        /\ step_generator.dir_setup_time > 1)
         => step_generator'.dir = step_generator.dir]_vars

\* C13 (amended): on the tick that sees the sign of speed differ from dir with
\* all three counters at 0, dir takes the sign of speed at once, the
\* direction-change hold is set and dir_setup_counter is loaded with
\* dir_setup_time: the delay is applied to the next step edge, not to dir.
C13_DirChangesAtOnce ==
    [][(/\ step_generator.dir # SpeedSign(step_generator)
        /\ CountersAtRest
        /\ BenchTick)
         => /\ step_generator'.dir = SpeedSign(step_generator)
            /\ step_generator'.hold_dds = 1
            /\ step_generator'.dir_setup_counter = step_generator.dir_setup_time]_vars

\* The tick after a reversal at rest: dir has just changed, no step edge was
\* accepted recently and the setup delay has just been loaded.
C13_Witness ==
    /\ bench.since_dir = 1
    /\ bench.since_edge = MaxWatch
    /\ step_generator.hold_dds = 1
    /\ step_generator.dir_setup_counter = step_generator.dir_setup_time
    /\ step_generator.dir_setup_time > 1

\* C14: after the dir output changes, no step edge is accepted for at least
\* dir_setup_time ticks: on the tick that accepts a step edge the last change
\* of dir lies at least dir_setup_time ticks back.
C14_SetupTimeBeforeEdge ==
    bench.since_edge = 1 => bench.since_dir > step_generator.dir_setup_time

\* C15: the dir output never changes within steplen + dir_hold_time ticks
\* after the most recent accepted step edge: on a tick that changes dir, an
\* earlier tick that accepted a step edge lies at least steplen + dir_hold_time
\* ticks back.
C15_HoldTimeBeforeDirChange ==
    (bench.since_dir = 1 /\ 1 < bench.since_edge /\ bench.since_edge < MaxWatch)
        => bench.since_edge > step_generator.steplen + step_generator.dir_hold_time

\* C16: two consecutive accepted step edges with a direction reversal pending
\* between them (dir differed from the sign of speed at the start of a tick
\* between them) are at least steplen + dir_hold_time ticks apart.
C16_EdgesApartAcrossReversal ==
    [][(/\ bench.pending = 1
        /\ bench.since_edge < MaxWatch
        /\ step_generator'.step_prev # step_generator.step_prev)
         => bench.since_edge
              >= step_generator.steplen + step_generator.dir_hold_time]_vars

\* C17: a step edge accepted while steplen_counter is 0 loads the counter with
\* steplen while step is still low; after every tick step is high exactly if
\* steplen_counter was above 0 before it; step is never high for more than
\* steplen ticks in a row and has been high for exactly steplen ticks when it
\* falls.
C17_StepPulseLength ==
    [][/\ (/\ step_generator.steplen_counter = 0
           /\ step_generator'.step_prev # step_generator.step_prev)
            => /\ step_generator'.steplen_counter = step_generator.steplen
               /\ step_generator'.step = 0
       /\ (step_generator.step = 1 /\ step_generator'.step = 0)
            => bench.step_high = step_generator.steplen
       /\ bench.step_high <= step_generator.steplen
       /\ BenchTick
            => step_generator'.step = B(step_generator.steplen_counter > 0)]_vars

\* The last tick of a step pulse that follows an accepted step edge.
C17_Witness ==
    /\ step_generator.steplen > 1
    /\ step_generator.step = 1
    /\ bench.step_high = step_generator.steplen
    /\ bench.since_edge = step_generator.steplen + 1
    /\ step_generator.steplen_counter = 0

----------------------------------------------------------------------------
(* Properties of the position update and the reset (SpecHost) *)

\* C18: on a tick with enable false (no reset, no wait) the position is
\* unchanged when soft_stop is false, and changes by the speed scaled to
\* position units when soft_stop is true.
C18_PositionWhileDisabled ==
    [][(/\ step_generator.enable = 0
        /\ step_generator.reset = 0
        /\ step_generator.wait = 0
        /\ GenTick)
         => step_generator'.position =
              IF config.soft_stop
              THEN Signed(step_generator.position
                            + Shr(step_generator.speed, PickOffShift(config)),
                          PositionWidth(config))
              ELSE step_generator.position]_vars

\* Disabled while moving, with soft_stop: the next tick still moves.
C18_Witness ==
    /\ config.soft_stop
    /\ step_generator.enable = 0
    /\ step_generator.reset = 0
    /\ step_generator.wait = 0
    /\ step_generator.position # 0
    /\ Shr(step_generator.speed, PickOffShift(config)) # 0

----------------------------------------------------------------------------
(* Properties of the constructor (SpecCtor) *)

\* C20: a pick_off sequence of fewer than 3 values, a string, or a value that
\* is neither an integer nor iterable raises ValueError and yields no
\* generator; every accepted pick_off gives pick_off_pos <= pick_off_vel <=
\* pick_off_acc; a single integer gives three equal scales.
C20_PickOffChecked ==
    step_generator.constructed # "pending" =>
        LET p == config.pick_off
            g == step_generator
        IN  /\ (\/ (p.kind = "iterable" /\ Len(p.value) < 3)
                \/ p.kind \in {"str", "other"})
                 => g.constructed = "ValueError"
            /\ g.constructed = "yes"
                 => (g.pick_off_pos <= g.pick_off_vel /\ g.pick_off_vel <= g.pick_off_acc)
            /\ p.kind = "int"
                 => /\ g.constructed = "yes"
                    /\ g.pick_off_pos = p.value[1]
                    /\ g.pick_off_vel = p.value[1]
                    /\ g.pick_off_acc = p.value[1]

\* A generator built from a descending pick-off sequence.
C20_Witness ==
    /\ step_generator.constructed = "yes"
    /\ config.pick_off.kind = "iterable"
    /\ config.pick_off.value[1] > config.pick_off.value[2]
    /\ config.pick_off.value[2] > config.pick_off.value[3]

----------------------------------------------------------------------------
(* Properties of the counters and of the wait (SpecWait) *)

\* C27: after a tick that accepts a step edge the three counters hold steplen,
\* steplen + dir_hold_time and steplen + dir_hold_time + dir_setup_time, also
\* when a counter was not 0 before the tick.
C27_EdgeLoadsCounters ==
    [][step_generator'.step_prev # step_generator.step_prev
       => /\ step_generator'.steplen_counter = step_generator.steplen
          /\ step_generator'.dir_hold_counter =
                step_generator.steplen + step_generator.dir_hold_time
          /\ step_generator'.dir_setup_counter =
                step_generator.steplen + step_generator.dir_hold_time
                    + step_generator.dir_setup_time]_vars

C29_DeferredStepKept ==
    step_generator.wait = 1 =>
        StepPhase(config, step_generator) # step_generator.step_prev

----------------------------------------------------------------------------
(* Properties of the tick order between sequencer and generator (Spec) *)

\* C30 as stated: in a tick in which the sequencer writes position_target,
\* speed_target or position_mode, the generator's update of that tick is
\* computed from the written values, so the generator state after the tick
\* already reflects them.
C30_UpdateUsesWrittenTargets ==
    [][LET o == [t |-> toolerator, g |-> step_generator]
           w == HomingMachine(config, o, StateMachine(config, o, o))
           new == StepgenModule(config, [o EXCEPT !.g = w.g], w).g
       IN  (w.g # o.g /\ Tick) =>
             /\ step_generator'.speed_target = new.speed_target
             /\ step_generator'.speed = new.speed
             /\ step_generator'.acc_distance = new.acc_distance
             /\ step_generator'.position = new.position]_vars

\* C30 amended: in a tick in which the sequencer writes position_target,
\* speed_target or position_mode, the generator's update is computed from the
\* registers as they were before the tick: speed, acc_distance and position
\* (and speed_target, unless the sequencer wrote it) end as if nothing had
\* been written, and the written values are first used one tick later.
C30_WritesTakeEffectNextTick ==
    [][LET o == [t |-> toolerator, g |-> step_generator]
           w == HomingMachine(config, o, StateMachine(config, o, o))
           own == StepgenModule(config, o, o).g
       IN  (w.g # o.g /\ Tick) =>
             /\ step_generator'.position_target = w.g.position_target
             /\ step_generator'.position_mode = w.g.position_mode
             /\ w.g.speed_target = o.g.speed_target
                   => step_generator'.speed_target = own.speed_target
             /\ step_generator'.speed = own.speed
             /\ step_generator'.acc_distance = own.acc_distance
             /\ step_generator'.position = own.position]_vars

\* Right after the tick that starts a tool change: the new position_target is
\* written, the enabled generator has not reacted yet.
C30_Witness ==
    /\ toolerator.state = "MOVING_FORWARD"
    /\ step_generator.enable = 1
    /\ dtg(config, step_generator) > MarginPos(config, step_generator)
    /\ step_generator.speed_target = 0
    /\ step_generator.speed = 0
    /\ step_generator.acc_distance = 0

----------------------------------------------------------------------------
(* Properties of the stored configuration (SpecTimings) *)

\* C31: steplen, dir_hold_time and dir_setup_time hold the configured
\* nanoseconds converted to clock ticks, floor(ns * clock_frequency / 10^9)
\* (with the clock in MHz: floor(ns * f / 1000)), and the value fits the
\* register, so 400, 400, 800 ns at 40 MHz give 16, 16, 32.
C31_TimingsInTicks ==
    step_generator.configured =>
        LET t == config.timings
            f == config.clock_frequency
        IN  /\ step_generator.steplen = (t.steplen * f) \div 1000
            /\ step_generator.dir_hold_time = (t.dir_hold_time * f) \div 1000
            /\ step_generator.dir_setup_time = (t.dir_setup_time * f) \div 1000
            /\ TimingTicks(t.steplen, f) < 2^SteplenWidth
            /\ TimingTicks(t.dir_hold_time, f) < 2^DirHoldTimeWidth
            /\ TimingTicks(t.dir_setup_time, f) < 2^DirSetupTimeWidth

----------------------------------------------------------------------------
(* Properties of the position algorithm and of stopped *)

\* C32: in position mode, enabled, with max_acceleration > 0 and no reset,
\* the generator comes to stopped for every distance to go; so there is no
\* state of rest (speed, speed_target and acc_distance 0) in which it neither
\* reports stopped nor is outside the margin, where the position algorithm
\* starts a move.
C32_MovesOrStopped ==
    LET g == step_generator
    IN  (/\ g.enable = 1 /\ g.position_mode = 1 /\ g.reset = 0 /\ g.wait = 0
         /\ g.max_acceleration > 0
         /\ g.speed = 0 /\ g.speed_target = 0 /\ g.acc_distance = 0)
        => \/ stopped(config, g)
           \/ dtg(config, g) > MarginPos(config, g)
           \/ dtg(config, g) < MarginNeg(config, g)

\* C33: whenever the axis is at its target and at rest (position =
\* position_target and speed = 0) stopped is asserted, for every
\* max_acceleration, max_acceleration = 0 included.
C33_StoppedAtTarget ==
    (/\ step_generator.position = step_generator.position_target
     /\ step_generator.speed = 0)
    => stopped(config, step_generator)

----------------------------------------------------------------------------
(* Properties of the turret that is never enabled (SpecDisabled) *)

\* C34: while enable has been false since power-up the sequencer starts no
\* motion, whatever commanded_tool and home are: the generator's position
\* never changes and no step pulse is emitted.
C34_DisabledHoldsStill ==
    toolerator.enable = 0 =>
        /\ step_generator.position = 0
        /\ step_generator.step = 0

----------------------------------------------------------------------------
(* Properties of the idle turret (Spec) *)

\* C35: the turret holds still when idle: in every reachable state with
\* state = READY and commanded_tool = current_tool, speed and speed_target
\* are 0 and a clock tick leaves the position unchanged.
C35_IdleHoldsStill ==
    [][(/\ toolerator.state = "READY"
        /\ toolerator.commanded_tool = toolerator.current_tool)
       => /\ step_generator.speed = 0
          /\ step_generator.speed_target = 0
          /\ Tick => step_generator'.position = step_generator.position]_vars

\* Idle after a completed tool change, enabled, away from the power-up
\* position and not exactly on the target.
C35_Witness ==
    /\ toolerator.state = "READY"
    /\ toolerator.commanded_tool = toolerator.current_tool
    /\ toolerator.current_tool = 2
    /\ toolerator.enable = 1
    /\ step_generator.position # 0
    /\ dtg(config, step_generator) # 0

----------------------------------------------------------------------------
(* Properties of the tool indices (SpecInRange) *)

\* C36: with commanded_tool always in 1..tool_count, every forward count used
\* on the READY tick that starts a tool change is in 1..tool_count - 1, and
\* after every completed change (MOVING_BACKWARD -> READY) current_tool is in
\* 1..tool_count.
C36_ToolIndicesInRange ==
    [][/\ (toolerator.state = "READY" /\ toolerator'.state = "MOVING_FORWARD")
            => ForwardCount(config, toolerator) \in 1..(config.tool_count - 1)
       /\ (toolerator.state = "MOVING_BACKWARD" /\ toolerator'.state = "READY")
            => toolerator'.current_tool \in 1..config.tool_count]_vars

====
